---- MODULE Spec2Model ----
(***************************************************************************)
(* A model of the CAFC daily-decisions pipeline                            *)
(* (src/cafc_production_system.py): the feed parser, the ledger            *)
(* (DecisionDatabase), the enrichment calls and main's run.                *)
(*                                                                         *)
(* Text is modelled as a sequence of symbols; a symbol is a maximal run of *)
(* characters of one class (digits, blanks, a punctuation mark, other), so *)
(* the regular expressions of the source act on symbols as they act on the *)
(* characters.  An XML child element that may be missing is a sequence of  *)
(* length 0 (no element) or 1 (the element, holding its text; the empty    *)
(* text is what ElementTree reports as None).                              *)
(*                                                                         *)
(* A naive datetime is a number of ticks; TicksPerDay ticks make a day.    *)
(***************************************************************************)
EXTENDS Integers, Sequences, FiniteSets, TLC

\* ------------------------------------------------------------------ bounds
MaxItems == 2          \* entries in the feed document
MaxRuns == 2           \* runs of main in one behaviour
MaxAdvance == 2        \* ticks the clock may advance after the first run starts
TicksPerDay == 2       \* resolution of the clock
EasternLagMax == 1     \* ticks the Eastern clock may be behind the host clock

\* ------------------------------------------------------- program constants
DaysBack == 30         \* main: fetch_recent_decisions(days_back=30)

WindowTicks == DaysBack * TicksPerDay
StartTick == WindowTicks + TicksPerDay
DateOf(t) == t \div TicksPerDay

\* -------------------------------------------------------------- text tools
DigitSyms == {"24", "25", "1145", "1502"}
Blank == " "
IsDigit(c) == c \in DigitSyms
IsSpace(c) == c = Blank

Min(a, b) == IF a <= b THEN a ELSE b

\* str.strip(): s without its leading and trailing blanks
NonBlankIdx(s) == {i \in 1..Len(s) : ~IsSpace(s[i])}
Lowest(S) == CHOOSE x \in S : \A y \in S : x <= y
Highest(S) == CHOOSE x \in S : \A y \in S : x >= y
Strip(s) ==
  IF NonBlankIdx(s) = {} THEN <<>>
  ELSE SubSeq(s, Lowest(NonBlankIdx(s)), Highest(NonBlankIdx(s)))

\* ------------------------------------------------ the title pattern (re.match)
\*   (\d+-\d+):\s*(.+?)\s*\[([^\]]+)\]
\* DigitRunEnd(s, i): the last index of the run of digits starting at i (i - 1 if none)
DigitRunEnd(s, i) ==
  LET stops == {j \in i..Len(s) : ~IsDigit(s[j])}
  IN  IF stops = {} THEN Len(s) ELSE Lowest(stops) - 1

\* the index of the colon closing group 1, or 0 when the head \d+-\d+: does not match
TitleColon(s) ==
  LET e1 == DigitRunEnd(s, 1)
      e2 == DigitRunEnd(s, e1 + 2)
  IN  IF /\ e1 >= 1
         /\ e1 + 1 <= Len(s) /\ s[e1 + 1] = "-"
         /\ e2 >= e1 + 2
         /\ e2 + 1 <= Len(s) /\ s[e2 + 1] = ":"
      THEN e2 + 1 ELSE 0

\* b is an opening bracket that \[([^\]]+)\] matches: a non-empty run without "]", then "]"
TagCloseSet(s, b) == {j \in (b + 1)..Len(s) : s[j] = "]"}
ValidBracket(s, b) ==
  /\ b >= 1 /\ b <= Len(s) /\ s[b] = "["
  /\ TagCloseSet(s, b) # {}
  /\ Lowest(TagCloseSet(s, b)) >= b + 2

\* The match the backtracking engine finds first: \s* takes every blank after the
\* colon (q is the first symbol that is not blank) and the lazy group 2 ends before
\* the first valid bracket after q; when there is none, \s* gives blanks back and the
\* only new candidate is a bracket standing at q itself, group 2 being blanks.
TitleMatch(s) ==
  LET c == TitleColon(s)
      nb == {j \in (c + 1)..Len(s) : ~IsSpace(s[j])}
      q == IF nb = {} THEN Len(s) + 1 ELSE Lowest(nb)
      later == {b \in (q + 1)..Len(s) : ValidBracket(s, b)}
      b == IF later # {} THEN Lowest(later)
           ELSE IF q > c + 1 /\ ValidBracket(s, q) THEN q
           ELSE 0
  IN  IF c = 0 \/ b = 0 THEN [matched |-> FALSE, g1 |-> <<>>, g2 |-> <<>>, g3 |-> <<>>]
      ELSE [matched |-> TRUE,
            g1 |-> SubSeq(s, 1, c - 1),
            g2 |-> SubSeq(s, Min(q, b), b - 1),
            g3 |-> SubSeq(s, b + 1, Lowest(TagCloseSet(s, b)) - 1)]

\* --------------------------------------------------------- the publication date
\* The text of <pubDate> is a timestamp followed by a zone suffix.  stamp is the
\* tick the timestamp denotes under '%a, %d %b %Y %H:%M:%S', or BadStamp when the
\* timestamp is not in that format.
BadStamp == 0 - 1
NumericOffsets == {"+0000", "-0500"}
Suffixes == NumericOffsets \cup {"", "GMT"}

\* re.sub(r'\s*[+-]\d{4}$', '', date_str): the suffix left after the substitution
StripOffset(suffix) == IF suffix \in NumericOffsets THEN "" ELSE suffix

\* strptime accepts the text iff the timestamp is well formed and nothing follows it
Strptime(text) == text.stamp # BadStamp /\ StripOffset(text.suffix) = ""

\* _parse_rss_date: the parsed datetime, or datetime.now() when parsing raises
ParseRssDate(text, now) == IF Strptime(text) THEN text.stamp ELSE now

\* ------------------------------------------------------------- the description
\* Symbols of a description: words, blanks, the label "Origin:", the status words,
\* and anchors (one symbol each).  A word is never directly followed by another
\* word or by the label.
Anchor1 == "<a href=\"/opinions-orders/25-1502.OPINION.10-28-2025_2594460.pdf\">"
Anchor2 == "<a href=\"/opinions-orders/24-1145.OPINION.10-2-2025_2598245.pdf\">"
AnchorElsewhere == "<a href=\"/wp-content/uploads/notice.pdf\">"
AnchorNotPdf == "<a href=\"/opinions-orders/25-1502.html\">"
PdfAnchors == {Anchor1, Anchor2}
HrefPath(a) ==
  IF a = Anchor1 THEN "/opinions-orders/25-1502.OPINION.10-28-2025_2594460.pdf"
  ELSE "/opinions-orders/24-1145.OPINION.10-2-2025_2598245.pdf"
StatusWords == {"Precedential", "Nonprecedential", "NonPrecedential"}
WordSyms == {"PTO", "CAFC", "Circuit"} \cup DigitSyms \cup StatusWords
EmptyDescriptionXml == "<description />"

\* lines 326-339: the description text main works on
DescriptionOf(item) ==
  IF item.description = <<>> THEN <<>>
  ELSE IF item.description[1] # <<>> THEN item.description[1]
  ELSE <<EmptyDescriptionXml>>

\* re.search(r'Origin:\s*(\w+)', description): the label, blanks, then a word
OriginHits(d) ==
  {i \in 1..Len(d) :
     /\ d[i] = "Origin:"
     /\ \E j \in (i + 1)..Len(d) :
          /\ d[j] \in WordSyms \cup {"Origin:"}
          /\ \A k \in (i + 1)..(j - 1) : IsSpace(d[k])}
\* the word \w+ takes: of a second label "Origin:" it takes "Origin"
OriginWord(d, i) ==
  LET w == d[Lowest({j \in (i + 1)..Len(d) : ~IsSpace(d[j])})]
  IN  IF w = "Origin:" THEN "Origin" ELSE w
\* an origin without the default
OriginOf_noDefault(d) == IF OriginHits(d) = {} THEN "" ELSE OriginWord(d, Lowest(OriginHits(d)))
OriginOf(d) == IF OriginHits(d) = {} THEN "Unknown" ELSE OriginWord(d, Lowest(OriginHits(d)))

\* "Precedential" in description: a case-sensitive substring test, symbol by symbol
HasPrecedential(d) == \E i \in 1..Len(d) : d[i] \in {"Precedential", "NonPrecedential"}
HasNonprecedential(d) == \E i \in 1..Len(d) : d[i] = "Nonprecedential"
\* a flag that looks for "Precedential" only
PrecedentialOf_ignoresNon(d) == d # <<>> /\ HasPrecedential(d)
PrecedentialOf(d) == d # <<>> /\ HasPrecedential(d) /\ ~HasNonprecedential(d)

\* ------------------------------------------------------------ the document link
Host == "https://www.cafc.uscourts.gov"
KeywordTags == {"-order-", "-opinion-", "-errata-", "-rule_36_judgment-"}
UrlDates == {"10-2-2025", "10-02-2025"}
DocIds == {"2598245"}

\* re.search(r'href="(/opinions-orders/[^"]+\.pdf)"', description)
AnchorHits(d) == {i \in 1..Len(d) : d[i] \in PdfAnchors}

\* re.search(r'-(?:order|opinion|errata|rule_36_judgment)-(\d{1,2}-\d{1,2}-\d{4})_', link)
UrlDateHits(l) ==
  {i \in 1..Len(l) :
     /\ l[i] \in KeywordTags
     /\ i + 2 <= Len(l) /\ l[i + 1] \in UrlDates /\ l[i + 2] = "_"}

\* re.search(r'_(\d+)/?$', link): the index of the document id, or 0
UrlIdIndex(l) ==
  LET n == Len(l)
      e == IF n >= 1 /\ l[n] = "/" THEN n - 1 ELSE n
  IN  IF e >= 2 /\ l[e] \in DocIds \cup DigitSyms /\ l[e - 1] = "_" THEN e ELSE 0

\* a resolution that builds the URL from the permalink first
PdfLinkOf_fallbackFirst(d, l, appeal_number, doc_type) ==
  IF d = <<>> THEN <<>>
  ELSE IF l # <<>> /\ UrlDateHits(l) # {} /\ UrlIdIndex(l) # 0
       THEN <<Host, "/opinions-orders/">> \o appeal_number \o <<".">> \o doc_type
            \o <<".", l[Lowest(UrlDateHits(l)) + 1], "_", l[UrlIdIndex(l)], ".pdf">>
  ELSE IF AnchorHits(d) # {} THEN <<Host, HrefPath(d[Lowest(AnchorHits(d))])>>
  ELSE <<>>

\* lines 380-405: the resolved document URL (a sequence of symbols; <<>> is "")
PdfLinkOf(d, l, appeal_number, doc_type) ==
  IF d = <<>> THEN <<>>
  ELSE IF AnchorHits(d) # {} THEN <<Host, HrefPath(d[Lowest(AnchorHits(d))])>>
  ELSE IF l # <<>> /\ UrlDateHits(l) # {} /\ UrlIdIndex(l) # 0
       THEN <<Host, "/opinions-orders/">> \o appeal_number \o <<".">> \o doc_type
            \o <<".", l[Lowest(UrlDateHits(l)) + 1], "_", l[UrlIdIndex(l)], ".pdf">>
  ELSE <<>>

\* -------------------------------------------------------------- _parse_rss_item
\* An entry of the feed: title (<<>>: no element or no text), description (<<>>: no
\* element, <<text>>: the element), pubDate (<<>>: no element or no text, <<text>>),
\* link (<<>>: no element or no text).
NoDecision == [ok |-> FALSE]
Decision(title, appeal_number, origin, precedential, date, doc_type, link) ==
  [ok |-> TRUE, title |-> title, appeal_number |-> appeal_number, origin |-> origin,
   precedential |-> precedential, date |-> date, doc_type |-> doc_type,
   link |-> link, summary |-> ""]

\* a parser that gives up on an entry without description text
ParseRssItem_needsDescription(item, now) ==
  IF item.title = <<>> THEN NoDecision
  ELSE IF item.pubDate = <<>> THEN NoDecision
  ELSE IF item.description = <<>> \/ item.description = << <<>> >> THEN NoDecision
  ELSE IF ~TitleMatch(item.title).matched THEN NoDecision
  ELSE LET m == TitleMatch(item.title)
           d == DescriptionOf(item)
           appeal_number == m.g1
           doc_type == Strip(m.g3)
       IN  Decision(Strip(m.g2), appeal_number, OriginOf(d), PrecedentialOf(d),
                    ParseRssDate(item.pubDate[1], now), doc_type,
                    PdfLinkOf(d, item.link, appeal_number, doc_type))

ParseRssItem(item, now) ==
  IF item.title = <<>> THEN NoDecision
  ELSE IF item.pubDate = <<>> THEN NoDecision
  ELSE IF ~TitleMatch(item.title).matched THEN NoDecision
  ELSE LET m == TitleMatch(item.title)
           d == DescriptionOf(item)
           appeal_number == m.g1
           doc_type == Strip(m.g3)
       IN  Decision(Strip(m.g2), appeal_number, OriginOf(d), PrecedentialOf(d),
                    ParseRssDate(item.pubDate[1], now), doc_type,
                    PdfLinkOf(d, item.link, appeal_number, doc_type))

\* ------------------------------------------------------- fetch_recent_decisions
\* sorted(decisions, key=date, reverse=True): stable, newest first
RECURSIVE InsertByDate(_, _)
InsertByDate(sorted, d) ==
  IF sorted = <<>> THEN <<d>>
  ELSE IF Head(sorted).date >= d.date THEN <<Head(sorted)>> \o InsertByDate(Tail(sorted), d)
  ELSE <<d>> \o sorted

RECURSIVE SortNewestFirst(_)
SortNewestFirst(ds) ==
  IF ds = <<>> THEN <<>>
  ELSE InsertByDate(SortNewestFirst(SubSeq(ds, 1, Len(ds) - 1)), ds[Len(ds)])

\* lines 300-307: the loop over the items, in feed order
\* a window that leaves out the boundary instant
InWindow_strict(date, cutoff_date) == date > cutoff_date
\* line 303: decision.date >= cutoff_date
InWindow(date, cutoff_date) == date >= cutoff_date

RECURSIVE ParseItems(_, _, _)
ParseItems(items, now, cutoff_date) ==
  IF items = <<>> THEN <<>>
  ELSE LET decision == ParseRssItem(Head(items), now)
           rest == ParseItems(Tail(items), now, cutoff_date)
       IN  IF decision.ok /\ InWindow(decision.date, cutoff_date)
           THEN <<decision>> \o rest ELSE rest

FetchRecentDecisions(items, now, days_back) ==
  SortNewestFirst(ParseItems(items, now, now - days_back * TicksPerDay))

\* ------------------------------------------------------------------ the ledger
\* The table sent_decisions as a set of rows; appeal_number is the primary key.
LedgerIds(rows) == {r.appeal_number : r \in rows}

\* DecisionDatabase.was_sent
WasSent(rows, appeal_number) == appeal_number \in LedgerIds(rows)

\* a table that is emptied before the row is written
MarkAsSent_truncating(rows, decision, eastern_now) ==
  {[appeal_number |-> decision.appeal_number,
    case_title |-> decision.title,
    decision_date |-> DateOf(decision.date),
    sent_date |-> eastern_now,
    precedential |-> IF decision.precedential THEN 1 ELSE 0]}
\* a table without the primary key: a plain INSERT that always adds a row
MarkAsSent_insertOnly(rows, decision, eastern_now) ==
  rows \cup {[appeal_number |-> decision.appeal_number,
              case_title |-> decision.title,
              decision_date |-> DateOf(decision.date),
              sent_date |-> eastern_now,
              precedential |-> IF decision.precedential THEN 1 ELSE 0]}
\* DecisionDatabase.mark_as_sent: INSERT OR REPLACE on the primary key
MarkAsSent(rows, decision, eastern_now) ==
  {r \in rows : r.appeal_number # decision.appeal_number}
    \cup {[appeal_number |-> decision.appeal_number,
           case_title |-> decision.title,
           decision_date |-> DateOf(decision.date),
           sent_date |-> eastern_now,
           precedential |-> IF decision.precedential THEN 1 ELSE 0]}

\* ------------------------------------------------------------- the environment
\* EmailSender.__init__: the configuration is accepted (no ValueError)
SplitRecipients(recipients_str) ==
  SelectSeq(recipients_str, LAMBDA r : r # "," /\ ~IsSpace(r))
EmailConfigOk(env) ==
  /\ env.EMAIL_FROM # "" /\ env.EMAIL_PASSWORD # ""
  /\ env.EMAIL_RECIPIENTS # <<>>

\* EmailSender.send_email, lines 798-812: the session ends at the first call that
\* raises (SMTP() or starttls, login, send_message, quit) or runs through
SmtpOutcomes == {"connect_failed", "login_failed", "send_failed", "quit_failed", "sent"}
\* the server has the message once send_message has returned
HandedToServer(outcome) == outcome \in {"quit_failed", "sent"}
\* a send_email that takes the message for delivered once send_message has returned
SendEmail_optimistic(outcome) == outcome # "connect_failed"
\* send_email returns True when no call raised, False from the handler otherwise
SendEmail(outcome) == outcome = "sent"

\* a summarizer that builds a client whether or not a key is set
HasClient_always(env) == TRUE
\* DecisionSummarizer.__init__: a client exists iff an API key is set
HasClient(env) == env.ANTHROPIC_API_KEY # ""

\* DecisionSummarizer.is_patent_case, line 261: "yes" in answer
ClassifyAnswers == {"yes", "no", "unclear"}
AnswerIsYes(said) == said = "yes"
\* is_patent_case, lines 258-268: what it returns once the model was asked
IsPatentCase(said) == said = "error" \/ AnswerIsYes(said)

\* ---------------------------------------------------------------- model inputs
Title1 == <<"24", "-", "1145", ":", " ", "AORTIC", " ", "[", "OPINION", "]">>
Title2 == <<"25", "-", "1502", ":", " ", "WSOU", " ", "[", "ORDER", "]">>
TitleNoTag == <<"24", "-", "1145", ":", " ", "AORTIC">>
Desc1 == <<"Origin:", " ", "PTO", " ", "Precedential">>
Link1 == <<"https://www.cafc.uscourts.gov/opinions-orders/", "-order-", "10-2-2025", "_", "2598245", "/">>
DescNoAnchor == <<"Origin:", " ", "CAFC", " ", "Nonprecedential">>
LinkNoId == <<"https://www.cafc.uscourts.gov/", "-opinion-", "10-02-2025", "_", "2598245", "-2", "/">>

Entry(title, stamp, suffix) ==
  [title |-> title, description |-> <<Desc1>>,
   pubDate |-> <<[stamp |-> stamp, suffix |-> suffix]>>, link |-> Link1]

Entries ==
  { Entry(Title1, StartTick, "+0000"),                      \* issued at the first run's instant
    [Entry(Title2, StartTick - 1, "-0500")                  \* one tick earlier, and
       EXCEPT !.description = <<DescNoAnchor>>,             \* no document URL to be had
              !.link = LinkNoId],
    Entry(TitleNoTag, StartTick, "+0000"),                  \* no bracketed tag
    Entry(Title2, BadStamp, "+0000"),                       \* timestamp not in the format
    Entry(Title1, StartTick - WindowTicks - 1, "+0000") }   \* before the window

RECURSIVE SeqsUpTo(_, _)
SeqsUpTo(S, n) ==
  IF n = 0 THEN {<<>>}
  ELSE LET shorter == SeqsUpTo(S, n - 1)
       IN  shorter \cup {Append(q, x) : q \in shorter, x \in S}

Feeds == SeqsUpTo(Entries, MaxItems)

Envs ==
  { [ANTHROPIC_API_KEY |-> "key", EMAIL_FROM |-> "bot@x", EMAIL_PASSWORD |-> "pw",
     EMAIL_RECIPIENTS |-> <<"a@x", ",", " ", "b@x">>],
    [ANTHROPIC_API_KEY |-> "", EMAIL_FROM |-> "bot@x", EMAIL_PASSWORD |-> "pw",
     EMAIL_RECIPIENTS |-> <<"a@x">>],
    [ANTHROPIC_API_KEY |-> "key", EMAIL_FROM |-> "bot@x", EMAIL_PASSWORD |-> "",
     EMAIL_RECIPIENTS |-> <<"a@x">>],
    [ANTHROPIC_API_KEY |-> "key", EMAIL_FROM |-> "bot@x", EMAIL_PASSWORD |-> "pw",
     EMAIL_RECIPIENTS |-> <<>>] }

\* EMAIL_RECIPIENTS set to commas and blanks only: a non-empty string
EnvBlankRecipients ==
  [ANTHROPIC_API_KEY |-> "key", EMAIL_FROM |-> "bot@x", EMAIL_PASSWORD |-> "pw",
   EMAIL_RECIPIENTS |-> <<",", " ", ",">>]

FetchOutcomes == {"ok", "network_error", "timeout", "http_status", "bad_xml"}
SummaryOutcomes == {"pdf_fetch_failed", "no_text", "model_failed", "summary"}

\* --------------------------------------------------------------------- state
VARIABLES
  feed,                  \* the items of the feed document the court serves
  env,                   \* the process environment
  lag,                   \* ticks the Eastern clock is behind the host's naive clock
  now,                   \* datetime.now() of the host
  runs,                  \* runs of main started so far
  pc,                    \* where main is: idle, fetch, select, enrich, render, done, abort
  fetched,               \* how the feed fetch of this run ended ("none" before it)
  all_decisions,         \* main: all_decisions
  today_decisions,       \* main: today_decisions
  i,                     \* the index of the enrichment loop
  answer,                \* is_patent_case: what the model said for the record of the
                         \* last turn ("none": not asked, "error": the call raised)
  patent_decisions,      \* main: patent_decisions
  non_patent_decisions,  \* main: non_patent_decisions
  handed,                \* the records of the digest handed to send_email in this run
  sendResult,            \* what send_email returned: none (not called), ok, failed
  smtp,                  \* how the SMTP session of send_email ended ("none": no session)
  calls,                 \* outbound calls of this run: document fetches, model calls, sends
  ledger,                \* the rows of sent_decisions
  ledgerAtStart,         \* the ledger when this run started
  prevHanded,            \* the records handed in the previous run, as parsed
  prevResult             \* sendResult of the previous run

vars == <<feed, env, lag, now, runs, pc, fetched, all_decisions, today_decisions, i,
          answer, patent_decisions, non_patent_decisions, handed, sendResult, smtp, calls,
          ledger, ledgerAtStart, prevHanded, prevResult>>

runVars == <<fetched, all_decisions, today_decisions, i, answer, patent_decisions,
             non_patent_decisions, handed, sendResult, smtp, calls>>

NoCalls == [pdf |-> 0, model |-> 0, send |-> 0]
Between == {"idle", "done", "abort"}

\* get_eastern_now / get_eastern_today
EasternNow == now - lag
EasternToday == DateOf(EasternNow)

\* nothing has run yet
Constructed ==
  /\ now = StartTick
  /\ runs = 0
  /\ pc = "idle"
  /\ fetched = "none"
  /\ all_decisions = <<>>
  /\ today_decisions = <<>>
  /\ i = 0
  /\ answer = "none"
  /\ patent_decisions = <<>>
  /\ non_patent_decisions = <<>>
  /\ handed = <<>>
  /\ sendResult = "none"
  /\ smtp = "none"
  /\ calls = NoCalls
  /\ ledger = {}
  /\ ledgerAtStart = {}
  /\ prevHanded = {}
  /\ prevResult = "none"

Init ==
  /\ feed \in Feeds
  /\ env \in Envs
  /\ lag \in 0..EasternLagMax
  /\ Constructed

\* the records of a list, without what enrichment added
AsParsed(ds) == {[ds[k] EXCEPT !.summary = ""] : k \in 1..Len(ds)}

\* main, lines 821-830: a new process builds its collaborators; the first run starts
\* at StartTick, a later one any time after the run before it
StartRun ==
  /\ pc \in Between
  /\ runs < MaxRuns
  /\ runs' = runs + 1
  /\ \E dt \in 0..(StartTick + MaxAdvance - now) :
       /\ runs = 0 => dt = 0
       /\ now' = now + dt
  /\ prevHanded' = AsParsed(handed)
  /\ prevResult' = sendResult
  /\ ledgerAtStart' = ledger
  /\ fetched' = "none"
  /\ all_decisions' = <<>>
  /\ today_decisions' = <<>>
  /\ i' = 0
  /\ answer' = "none"
  /\ patent_decisions' = <<>>
  /\ non_patent_decisions' = <<>>
  /\ handed' = <<>>
  /\ sendResult' = "none"
  /\ smtp' = "none"
  /\ calls' = NoCalls
  /\ pc' = IF EmailConfigOk(env) THEN "fetch" ELSE "abort"
  /\ UNCHANGED <<feed, env, lag, ledger>>

\* a fetch that swallows its failure and returns no decisions
FetchRaises_swallowed(outcome) == FALSE
\* fetch_recent_decisions, lines 289-311: which outcomes of the GET and of
\* ET.fromstring are re-raised to main
FetchRaises(outcome) == outcome # "ok"

\* main, line 834 with lines 897-901
Fetch ==
  /\ pc = "fetch"
  /\ \E outcome \in FetchOutcomes :
       /\ fetched' = outcome
       /\ IF FetchRaises(outcome)
          THEN /\ pc' = "abort"
               /\ UNCHANGED all_decisions
          ELSE /\ pc' = "select"
               /\ all_decisions' = IF outcome = "ok"
                                   THEN FetchRecentDecisions(feed, now, DaysBack)
                                   ELSE <<>>
  /\ UNCHANGED <<feed, env, lag, now, runs, today_decisions, i, answer, patent_decisions,
                 non_patent_decisions, handed, sendResult, smtp, calls, ledger,
                 ledgerAtStart, prevHanded, prevResult>>

\* a selection that keeps the whole window
TodayDecisions_wholeWindow(decisions, today) == decisions
\* a selection that keeps only the records with a document URL
TodayDecisions_resolvedOnly(decisions, today) ==
  SelectSeq(decisions, LAMBDA d : DateOf(d.date) = today /\ d.link # <<>>)
\* main, line 838
TodayDecisions(decisions, today) ==
  SelectSeq(decisions, LAMBDA d : DateOf(d.date) = today)

\* a selection without the early return of lines 842-844
Select_noEarlyReturn ==
  /\ pc = "select"
  /\ today_decisions' = TodayDecisions(all_decisions, EasternToday)
  /\ IF HasClient(env) /\ today_decisions' # <<>>
     THEN /\ pc' = "enrich"
          /\ i' = 1
          /\ UNCHANGED <<patent_decisions, non_patent_decisions>>
     ELSE /\ pc' = "render"
          /\ patent_decisions' = today_decisions'
          /\ UNCHANGED <<i, non_patent_decisions>>
  /\ UNCHANGED <<feed, env, lag, now, runs, fetched, all_decisions, answer, handed,
                 sendResult, smtp, calls, ledger, ledgerAtStart, prevHanded, prevResult>>

\* main, lines 836-850 and the branch of line 852
Select ==
  /\ pc = "select"
  /\ today_decisions' = TodayDecisions(all_decisions, EasternToday)
  /\ IF today_decisions' = <<>>
     THEN /\ pc' = "done"
          /\ UNCHANGED <<i, patent_decisions, non_patent_decisions>>
     ELSE IF HasClient(env)
     THEN /\ pc' = "enrich"
          /\ i' = 1
          /\ UNCHANGED <<patent_decisions, non_patent_decisions>>
     ELSE /\ pc' = "render"
          /\ patent_decisions' = today_decisions'
          /\ UNCHANGED <<i, non_patent_decisions>>
  /\ UNCHANGED <<feed, env, lag, now, runs, fetched, all_decisions, answer, handed,
                 sendResult, smtp, calls, ledger, ledgerAtStart, prevHanded, prevResult>>

\* fetch_and_summarize, line 136: requests.get of an empty URL raises at once
SummaryOutcomesOf(decision) ==
  IF decision.link = <<>> THEN {"pdf_fetch_failed"} ELSE SummaryOutcomes

\* a loop that appends the record it got no summary for a second time
WithoutSummary_twice(patent, decision) == Append(Append(patent, decision), decision)
\* a loop that leaves out the record it got no summary for
WithoutSummary_dropped(patent, decision) == patent
\* main, lines 870-872: no summary, the record goes with the patent cases
WithoutSummary(patent, decision) == Append(patent, decision)

\* main, lines 857-872: one turn of the loop.  out is how fetch_and_summarize ended,
\* said what the model answers to is_patent_case ("error": the call raised).
Enrich ==
  /\ pc = "enrich"
  /\ i <= Len(today_decisions)
  /\ \E out \in SummaryOutcomesOf(today_decisions[i]), said \in ClassifyAnswers \cup {"error"} :
       LET summary == IF out = "summary" THEN "summary" ELSE ""
           decision == [today_decisions[i] EXCEPT !.summary = summary]
           is_patent == IsPatentCase(said)
       IN  /\ today_decisions' = [today_decisions EXCEPT ![i] = decision]
           /\ answer' = IF summary # "" THEN said ELSE "none"
           /\ IF summary # ""
              THEN /\ calls' = [calls EXCEPT !.pdf = @ + 1, !.model = @ + 2]
                   /\ IF is_patent
                      THEN /\ patent_decisions' = Append(patent_decisions, decision)
                           /\ UNCHANGED non_patent_decisions
                      ELSE /\ non_patent_decisions' = Append(non_patent_decisions, decision)
                           /\ UNCHANGED patent_decisions
              ELSE /\ calls' = [calls EXCEPT !.pdf = @ + 1,
                                             !.model = @ + (IF out = "model_failed" THEN 1 ELSE 0)]
                   /\ patent_decisions' = WithoutSummary(patent_decisions, decision)
                   /\ UNCHANGED non_patent_decisions
  /\ i' = i + 1
  /\ pc' = IF i = Len(today_decisions) THEN "render" ELSE "enrich"
  /\ UNCHANGED <<feed, env, lag, now, runs, fetched, all_decisions, handed, sendResult,
                 smtp, ledger, ledgerAtStart, prevHanded, prevResult>>

\* main, lines 889-895: what the run writes to the ledger once send_email has
\* returned sent (TRUE or FALSE): main drops the return value and calls no
\* method of DecisionDatabase.
\* a run that records every record of the digest whatever send_email returned
RECURSIVE MarkAllAsSent(_, _, _)
MarkAllAsSent(rows, digest, eastern_now) ==
  IF digest = <<>> THEN rows
  ELSE MarkAllAsSent(MarkAsSent(rows, Head(digest), eastern_now), Tail(digest), eastern_now)
LedgerAfterSend_commitAlways(rows, digest, sent, eastern_now) ==
  MarkAllAsSent(rows, digest, eastern_now)
LedgerAfterSend(rows, digest, sent, eastern_now) == rows

\* Deliver with a send_email that lets its exception reach main
Deliver_raises ==
  /\ pc = "render"
  /\ \E outcome \in SmtpOutcomes :
       /\ handed' = patent_decisions \o non_patent_decisions
       /\ smtp' = outcome
       /\ sendResult' = IF SendEmail(outcome) THEN "ok" ELSE "failed"
       /\ calls' = [calls EXCEPT !.send = @ + 1]
       /\ pc' = IF SendEmail(outcome) THEN "done" ELSE "abort"
  /\ UNCHANGED <<feed, env, lag, now, runs, fetched, all_decisions, today_decisions, i,
                 answer, patent_decisions, non_patent_decisions, ledger, ledgerAtStart,
                 prevHanded, prevResult>>

\* main, lines 880-895: render the digest and hand it to send_email
Deliver ==
  /\ pc = "render"
  /\ IF patent_decisions = <<>> /\ non_patent_decisions = <<>>
     THEN /\ pc' = "done"
          /\ UNCHANGED <<handed, sendResult, smtp, calls, ledger>>
     ELSE \E outcome \in SmtpOutcomes :
            /\ handed' = patent_decisions \o non_patent_decisions
            /\ smtp' = outcome
            /\ sendResult' = IF SendEmail(outcome) THEN "ok" ELSE "failed"
            /\ calls' = [calls EXCEPT !.send = @ + 1]
            /\ ledger' = LedgerAfterSend(ledger, handed', SendEmail(outcome), EasternNow)
            /\ pc' = "done"
  /\ UNCHANGED <<feed, env, lag, now, runs, fetched, all_decisions, today_decisions, i,
                 answer, patent_decisions, non_patent_decisions, ledgerAtStart, prevHanded,
                 prevResult>>

\* a caller of DecisionDatabase records a decision of the feed, before the first run
DbMarkAsSent ==
  /\ pc = "idle"
  /\ \E k \in 1..Len(feed) :
       /\ ParseRssItem(feed[k], now).ok
       /\ ledger' = MarkAsSent(ledger, ParseRssItem(feed[k], now), EasternNow)
  /\ UNCHANGED <<feed, env, lag, now, runs, pc, runVars, ledgerAtStart, prevHanded,
                 prevResult>>

Next == StartRun \/ Fetch \/ Select \/ Enrich \/ Deliver \/ DbMarkAsSent

Spec == Init /\ [][Next]_vars


\* ------------------------------------------------- one entry, parsed by one run
\* Titles, descriptions and permalinks _parse_rss_item can meet.
TitleBlankTag == <<"24", "-", "1145", ":", " ", "AORTIC", " ", "[", " ", "]">>
TitleEmptyTag == <<"24", "-", "1145", ":", " ", "AORTIC", " ", "[", "]">>
TitleNoCaption == <<"24", "-", "1145", ":", " ", "[", "OPINION", "]">>
TitleNoColon == <<"24", "-", "1145", " ", "AORTIC", " ", "[", "OPINION", "]">>
TitleNoId == <<"AORTIC", " ", "[", "OPINION", "]">>
TitleTrailing == <<"25", "-", "1502", ":", " ", "WSOU", " ", "[", "ORDER", "]", " ", "AORTIC">>
ParseTitles ==
  {Title1, Title2, TitleNoTag, TitleBlankTag, TitleEmptyTag, TitleNoCaption,
   TitleNoColon, TitleNoId, TitleTrailing}

ParseDescs ==
  { <<>>,                                                   \* no description element
    << <<>> >>,                                             \* an element without text
    <<Desc1>>,
    <<DescNoAnchor>>,
    << <<"Precedential", " ", "Origin:", "PTO", " ", "Nonprecedential">> >>,
    << <<"NonPrecedential", " ", "Origin:">> >>,
    << <<"Origin:", " ", "Circuit">> >>,
    << <<Anchor1, " ", "Origin:", " ", "PTO", " ", "Precedential">> >>,
    << <<AnchorNotPdf, " ", Anchor2, " ", Anchor1>> >>,
    << <<AnchorElsewhere, " ", AnchorNotPdf, " ", "Nonprecedential">> >> }

LinkReal ==
  <<"https://www.cafc.uscourts.gov/", "10-02-2025", "-24-1071-smith-v-jones", "-order-",
    "24-1071", "-order-", "10-2-2025", "_", "2598245", "/">>
LinkNoDate == <<"https://www.cafc.uscourts.gov/", "10-02-2025", "-24-1071-smith-v-jones", "_", "2598245">>
ParseLinks == {Link1, LinkReal, LinkNoId, LinkNoDate, <<>>}

ParseFeeds ==
  { << [title |-> t, description |-> d,
        pubDate |-> <<[stamp |-> StartTick, suffix |-> "+0000"]>>, link |-> l] >> :
      t \in ParseTitles, d \in ParseDescs, l \in ParseLinks }

\* entries issued around the far end of the first run's window
WindowFeeds ==
  { << Entry(Title1, StartTick - WindowTicks + dt, "+0000") >> : dt \in {0 - 1, 0, 1} }

ParseInit ==
  /\ feed \in ParseFeeds \cup WindowFeeds
  /\ env \in {e \in Envs : EmailConfigOk(e)} \cup {EnvBlankRecipients}
  /\ lag \in 0..EasternLagMax
  /\ Constructed

ParseNext == StartRun \/ Fetch \/ Select

SpecParse == ParseInit /\ [][ParseNext]_vars

\* ----------------------------------------------------------------- the claims
HandedIds == {handed[k].appeal_number : k \in 1..Len(handed)}
FetchFailures == {"network_error", "timeout", "http_status"}

\* C1 (idempotence across runs): when the run before this one delivered a non-empty
\* set of records and the feed is unchanged, this run hands no record to delivery.
C1_Idempotence ==
  (runs >= 2 /\ prevResult = "ok" /\ prevHanded # {}) => handed = <<>>

\* C2 (at-most-once delivery): no record handed to send_email has a case_id that
\* is in the ledger.
C2_AtMostOnce ==
  \A k \in 1..Len(handed) : ~WasSent(ledger, handed[k].appeal_number)

\* C3 (delivery-then-commit ordering): as long as a run has no confirmation of its
\* delivery (send_email was not called, or returned False), the ledger holds no row
\* that was not there when the run started.
C3_DeliveryThenCommit ==
  (runs >= 1 /\ sendResult # "ok") => ledger \subseteq ledgerAtStart

C3_Witness ==
  pc = "done" /\ sendResult = "failed" /\ handed # <<>> /\ ledgerAtStart # {}

\* C4 (commit on success): after a run whose delivery succeeded, the case_ids the
\* run added to the ledger are exactly the case_ids of the records it handed over.
C4_CommitOnSuccess ==
  (pc = "done" /\ sendResult = "ok")
    => LedgerIds(ledger) \ LedgerIds(ledgerAtStart) = HandedIds

\* C5 (retry after failed delivery): when the delivery of the run before this one
\* failed, this run, whenever it happens, hands over every record of that run again.
C5_RetryAfterFailure ==
  (pc = "done" /\ runs >= 2 /\ prevResult = "failed")
    => {d.appeal_number : d \in prevHanded} \subseteq HandedIds

\* C6 (emitted set): a run that does not abort hands over exactly the records parsed
\* from the feed that are inside the N-day window and whose case_id is not in the
\* ledger.
C6_EmittedSet ==
  (pc = "done" /\ fetched = "ok")
    => AsParsed(handed) =
         {d \in AsParsed(ParseItems(feed, now, now - DaysBack * TicksPerDay)) :
            ~WasSent(ledgerAtStart, d.appeal_number)}

\* C7 (abort on fetch failure): when the GET of the feed fails (network error,
\* timeout, HTTP error status) the run is in ABORT, has made no document fetch, no
\* model call and no delivery call, and the ledger is as it was when the run started.
C7_AbortOnFetchFailure ==
  fetched \in FetchFailures
    => /\ pc = "abort"
       /\ calls = NoCalls
       /\ handed = <<>> /\ sendResult = "none"
       /\ ledger = ledgerAtStart

C7_Witness ==
  pc = "abort" /\ fetched = "timeout" /\ ledger # {} /\ runs = 2 /\ prevResult = "ok"

MalformedEntry(item) ==
  \/ item.title = <<>>
  \/ ~TitleMatch(item.title).matched
  \/ item.pubDate = <<>>
  \/ ~Strptime(item.pubDate[1])

C9_PartialFailureIsolation ==
  fetched = "ok"
    => /\ \A k \in 1..Len(feed) :
            MalformedEntry(feed[k]) => ~ParseRssItem(feed[k], now).ok
       /\ Cardinality({k \in 1..Len(feed) : ParseRssItem(feed[k], now).ok})
            = Len(feed) - Cardinality({k \in 1..Len(feed) : MalformedEntry(feed[k])})

\* C10 (unparseable date is a discard): every record the fetch returns has the date
\* that the publication date of its entry parses to; none carries a substituted date.
C10_UnparseableDateDiscarded ==
  \A k \in 1..Len(all_decisions) :
    \E j \in 1..Len(feed) :
      /\ feed[j].pubDate # <<>>
      /\ Strptime(feed[j].pubDate[1])
      /\ feed[j].pubDate[1].stamp = all_decisions[k].date
      /\ TitleMatch(feed[j].title).g1 = all_decisions[k].appeal_number

\* ------------------------------------------- the claims about one parsed entry
\* the text of the description element of an entry (none when there is no element)
EntryText(item) == IF item.description = <<>> THEN <<>> ELSE item.description[1]
\* the symbols a token occurs in, as a case-sensitive substring
SymbolsWith(token) ==
  IF token = "Precedential" THEN {"Precedential", "NonPrecedential"}
  ELSE IF token = "Nonprecedential" THEN {"Nonprecedential"}
  ELSE {token}
Mentions(text, token) == \E k \in 1..Len(text) : text[k] \in SymbolsWith(token)

\* C11 (precedential flag): the record of an entry is precedential exactly when the
\* description text contains "Precedential" and does not contain "Nonprecedential";
\* so it is not with "Nonprecedential" present, with neither token, or with no
\* description.
C11_PrecedentialFlag ==
  \A k \in 1..Len(all_decisions) :
    all_decisions[k].precedential
      = (/\ Mentions(EntryText(feed[1]), "Precedential")
         /\ ~Mentions(EntryText(feed[1]), "Nonprecedential"))
\* a record parsed from a description that carries both tokens
C11_Witness ==
  /\ all_decisions # <<>>
  /\ Mentions(EntryText(feed[1]), "Precedential")
  /\ Mentions(EntryText(feed[1]), "Nonprecedential")
  /\ ~all_decisions[1].precedential

\* the title t reads id, colon, caption, bracketed tag
ThreeParts(t, id, caption, tag) ==
  \E a \in 1..Len(t), b \in 1..Len(t), c \in 1..Len(t) :
    /\ a < b /\ b < c
    /\ t[a] = ":" /\ t[b] = "[" /\ t[c] = "]"
    /\ id = SubSeq(t, 1, a - 1)
    /\ caption = Strip(SubSeq(t, a + 1, b - 1))
    /\ tag = Strip(SubSeq(t, b + 1, c - 1))

\* C12 (title discrimination): a record comes only from a title of the shape id,
\* colon, title, bracketed tag; its case id, title and document kind are those three
\* parts, and none of them (the tag above all) is empty.
C12_TitleDiscrimination ==
  \A k \in 1..Len(all_decisions) :
    LET d == all_decisions[k]
    IN  /\ ThreeParts(feed[1].title, d.appeal_number, d.title, d.doc_type)
        /\ d.appeal_number # <<>> /\ d.title # <<>> /\ d.doc_type # <<>>

\* the places of a text where an anchor to a .pdf under /opinions-orders/ stands
PdfAnchorPlaces(text) == {j \in 1..Len(text) : text[j] \in PdfAnchors}
\* the permalink has a date after a keyword tag and ends in a numeric id
FallbackPossible(l) ==
  /\ \E j \in 1..Len(l) : l[j] \in KeywordTags /\ j + 2 <= Len(l)
                            /\ l[j + 1] \in UrlDates /\ l[j + 2] = "_"
  /\ \E j \in 2..Len(l) : l[j - 1] = "_" /\ l[j] \in DocIds /\ (j = Len(l) \/ (j + 1 = Len(l) /\ l[j + 1] = "/"))

\* C13 (fallback ordering): when the description has an anchor to a .pdf under
\* /opinions-orders/, the document URL is the host followed by the path of the first
\* such anchor, character for character, whatever the permalink is.
C13_AnchorBeforeFallback ==
  \A k \in 1..Len(all_decisions) :
    LET text == EntryText(feed[1])
        url == all_decisions[k].link
    IN  PdfAnchorPlaces(text) # {} =>
          /\ Len(url) = 2
          /\ url[1] = Host
          /\ text[Lowest(PdfAnchorPlaces(text))] = "<a href=\"" \o url[2] \o "\">"
\* a record resolved from its anchor although the permalink could build a URL too
C13_Witness ==
  /\ all_decisions # <<>>
  /\ PdfAnchorPlaces(EntryText(feed[1])) # {}
  /\ FallbackPossible(feed[1].link)
  /\ Len(all_decisions[1].link) = 2

\* the date token after the first keyword tag of a permalink, and its trailing id
DateToken(l) ==
  l[Lowest({j \in 1..Len(l) : l[j] \in KeywordTags /\ j + 2 <= Len(l)
                                /\ l[j + 1] \in UrlDates /\ l[j + 2] = "_"}) + 1]
TrailingId(l) == IF l[Len(l)] = "/" THEN l[Len(l) - 1] ELSE l[Len(l)]

\* C14 (fallback construction): for an entry without an extractable anchor (its
\* description may be empty or missing) whose permalink has a date token after a
\* keyword tag and a trailing numeric id, the document URL is
\* {host}/opinions-orders/{case_id}.{document_kind}.{date_token}_{doc_id}.pdf.
C14_FallbackConstruction ==
  \A k \in 1..Len(all_decisions) :
    LET d == all_decisions[k]
        l == feed[1].link
    IN  (PdfAnchorPlaces(EntryText(feed[1])) = {} /\ FallbackPossible(l)) =>
          d.link = <<Host, "/opinions-orders/">> \o d.appeal_number \o <<".">>
                     \o d.doc_type \o <<".", DateToken(l), "_", TrailingId(l), ".pdf">>

\* ------------------------------------------------- the claims about a whole run
\* the records of a list as parsed, in order
Parsed(ds) == [k \in 1..Len(ds) |-> [ds[k] EXCEPT !.summary = ""]]
InList(d, ds) == \E k \in 1..Len(ds) : Parsed(ds)[k] = d

\* C15 (resolution miss is not an error): an entry with a regular title and a date in
\* the window, no anchor and no usable permalink still gives a record, with an empty
\* document URL; the record goes through selection, enrichment and delivery like any
\* other and the run does not abort.
C15_ResolutionMiss ==
  fetched = "ok" =>
    /\ pc # "abort"
    /\ \A k \in 1..Len(feed) :
         LET e == feed[k]
         IN  (/\ e.title \in {Title1, Title2}
              /\ e.pubDate[1].stamp # BadStamp
              /\ e.pubDate[1].stamp >= now - WindowTicks
              /\ PdfAnchorPlaces(EntryText(e)) = {}
              /\ ~FallbackPossible(e.link))
             => \E j \in 1..Len(all_decisions) :
                  /\ all_decisions[j].appeal_number = SubSeq(e.title, 1, 3)
                  /\ all_decisions[j].date = e.pubDate[1].stamp
                  /\ all_decisions[j].link = <<>>
    /\ \A j \in 1..Len(all_decisions) :
         LET d == all_decisions[j]
         IN  (d.link = <<>> /\ DateOf(d.date) = EasternToday) =>
               /\ pc \in {"enrich", "render", "done"} => InList(d, today_decisions)
               /\ pc = "render" => InList(d, patent_decisions \o non_patent_decisions)
               /\ pc = "done" => InList(d, handed) /\ sendResult # "none"
\* a record without a document URL was in a digest that was sent
C15_Witness ==
  /\ pc = "done" /\ sendResult = "ok"
  /\ \E j \in 1..Len(handed) : handed[j].link = <<>>

\* C16 (enrichment failure is not fatal): with a model client, every record the loop
\* has been through is in one of the two lists, as enrichment left it; a record that
\* got no summary (document fetch, text extraction or model call failed) is with the
\* patent cases, without a summary; the run does not abort and every record of the
\* day is in the digest handed to delivery.
C16_EnrichmentFailureNonFatal ==
  /\ fetched = "ok" => pc # "abort"
  /\ (HasClient(env) /\ pc \in {"enrich", "render"}) =>
       LET n == IF pc = "enrich" THEN i - 1 ELSE Len(today_decisions)
           out == patent_decisions \o non_patent_decisions
       IN  /\ Len(out) = n
           /\ \A j \in 1..n :
                /\ \E m \in 1..Len(out) : out[m] = today_decisions[j]
                /\ today_decisions[j].summary = "" =>
                     \E m \in 1..Len(patent_decisions) :
                       patent_decisions[m] = today_decisions[j]
  /\ (HasClient(env) /\ pc = "done" /\ today_decisions # <<>>) =>
       /\ sendResult # "none"
       /\ Len(handed) = Len(today_decisions)
       /\ \A j \in 1..Len(today_decisions) :
            \E m \in 1..Len(handed) : handed[m] = today_decisions[j]
\* a digest with a record whose enrichment failed (its document URL was there) and a
\* record that got its summary
C16_Witness ==
  /\ HasClient(env) /\ pc = "done" /\ sendResult = "ok"
  /\ \E j \in 1..Len(handed), m \in 1..Len(handed) :
       /\ handed[j].summary = "" /\ handed[j].link # <<>>
       /\ handed[m].summary # ""

\* C17 (classification fails open): a record is added to the excluded (non-patent)
\* list only when the model was asked and gave a determinate negative answer; with no
\* client, no summary, a call that raised or an answer that is not a determinate
\* label, the record goes to the patent list.
C17_ClassificationFailsOpen ==
  [][(non_patent_decisions' # non_patent_decisions /\ non_patent_decisions' # <<>>)
       => answer' = "no"]_vars

\* ------------------------------------------------- the claims about the ledger
RowsOf(rows, id) == {r \in rows : r.appeal_number = id}
RowsNotOf(rows, id) == {r \in rows : r.appeal_number # id}

\* C18 (idempotent upsert): a call of mark_as_sent for a case id, in the ledger
\* already or not, takes effect; afterwards the ledger has exactly one row for that
\* id (as for every id), was_sent of it is true, and the rows of the other ids are
\* what they were.
C18_IdempotentUpsert ==
  [][ledger' # ledger =>
       /\ \A id \in LedgerIds(ledger') : Cardinality(RowsOf(ledger', id)) = 1
       /\ \E id \in LedgerIds(ledger') :
            /\ WasSent(ledger', id)
            /\ RowsNotOf(ledger', id) = RowsNotOf(ledger, id)]_vars
\* the feed has two entries of one docket with different dates; both were recorded
\* and the ledger holds one row, that of the second entry
C18_Witness ==
  /\ Len(feed) = 2
  /\ feed[1].title = feed[2].title
  /\ feed[1].pubDate # feed[2].pubDate
  /\ ParseRssItem(feed[2], now).ok
  /\ ledger = MarkAsSent(MarkAsSent({}, ParseRssItem(feed[1], now), EasternNow),
                         ParseRssItem(feed[2], now), EasternNow)
  /\ Cardinality(ledger) = 1

\* the case ids whose delivery was confirmed in this run or in the run before it
DeliveredIds ==
  (IF sendResult = "ok" THEN HandedIds ELSE {})
    \cup (IF prevResult = "ok" THEN {d.appeal_number : d \in prevHanded} ELSE {})

\* C19 as stated (ledger monotonicity): over runs and ledger operations a case id in
\* the ledger stays in it, and a case id enters the ledger only after its delivery
\* was confirmed.
C19_MonotoneAndOnlyAfterDelivery ==
  [][/\ LedgerIds(ledger) \subseteq LedgerIds(ledger')
     /\ (LedgerIds(ledger') \ LedgerIds(ledger)) \subseteq DeliveredIds]_vars

\* C19 (ledger monotonicity): over runs and ledger operations a case id in the ledger
\* stays in it; no operation deletes an entry.
C19_LedgerMonotone == [][LedgerIds(ledger) \subseteq LedgerIds(ledger')]_vars
\* a run has ended with two case ids in the ledger, recorded one after the other
C19_Witness ==
  /\ Cardinality(LedgerIds(ledger)) = 2
  /\ pc = "done"

\* every record of the list has a case id, and no two records have the same one
UniqueCaseIds(ds) ==
  /\ \A k \in 1..Len(ds) : ds[k].appeal_number # <<>>
  /\ \A j \in 1..Len(ds), k \in 1..Len(ds) :
       j # k => ds[j].appeal_number # ds[k].appeal_number

\* C20 (unique case id per run): in the list fetch_recent_decisions returned and in
\* the digest handed to delivery, every case id is non-empty and no two records
\* share a case id, also when the feed has several entries of one docket.
C20_UniqueCaseIdPerRun == UniqueCaseIds(all_decisions) /\ UniqueCaseIds(handed)

\* ------------------------------------- more claims about one parsed entry
\* titles of the regular shape, and the parts they are made of
RegularTitles == {Title1, Title2, TitleTrailing}
CaseIdOf(t) == SubSeq(t, 1, 3)
CaptionOf(t) == <<t[6]>>
KindOf(t) == <<t[9]>>
\* the places of a text where the label stands with a value after it, and the value
LabelPlaces(text) ==
  {j \in 1..Len(text) :
     \/ j + 1 <= Len(text) /\ text[j] = "Origin:" /\ text[j + 1] \in WordSyms
     \/ j + 2 <= Len(text) /\ text[j] = "Origin:" /\ IsSpace(text[j + 1])
          /\ text[j + 2] \in WordSyms}
LabelValue(text, j) == IF IsSpace(text[j + 1]) THEN text[j + 2] ELSE text[j + 1]

\* C21 (origin default): an entry with a regular title and a valid date (one of the
\* window, to see the record in the list returned) gives a record; the origin of a record is the value after the first label "Origin:" of
\* the description, and "Unknown" when the description has no such label.
C21_OriginDefault ==
  fetched = "ok" =>
    /\ (feed[1].title \in RegularTitles
          /\ feed[1].pubDate[1].stamp >= now - DaysBack * TicksPerDay)
         => Len(all_decisions) = 1
    /\ \A k \in 1..Len(all_decisions) :
         LET text == EntryText(feed[1])
         IN  all_decisions[k].origin
               = IF LabelPlaces(text) = {} THEN "Unknown"
                 ELSE LabelValue(text, Lowest(LabelPlaces(text)))
\* a record of unknown origin from a description that has text, the bare label even
C21_Witness ==
  /\ all_decisions # <<>>
  /\ all_decisions[1].origin = "Unknown"
  /\ Mentions(EntryText(feed[1]), "Origin:")

\* C22 (empty or missing description): an entry with a regular title and a valid
\* date whose description element is empty or absent gives a record of origin
\* "Unknown", not precedential, with case id, title, document kind and date as the
\* title and the date give them.
C22_NoDescription ==
  (fetched = "ok" /\ feed[1].title \in RegularTitles
     /\ feed[1].description \in {<<>>, << <<>> >>}) =>
    /\ Len(all_decisions) = 1
    /\ all_decisions[1].origin = "Unknown"
    /\ ~all_decisions[1].precedential
    /\ all_decisions[1].appeal_number = CaseIdOf(feed[1].title)
    /\ all_decisions[1].title = CaptionOf(feed[1].title)
    /\ all_decisions[1].doc_type = KindOf(feed[1].title)
    /\ all_decisions[1].date = feed[1].pubDate[1].stamp
\* the record of an entry whose description element is there but empty
C22_Witness ==
  /\ Len(all_decisions) = 1
  /\ feed[1].description = << <<>> >>
  /\ all_decisions[1].origin = "Unknown"

\* C23 (window filter): the list fetch_recent_decisions(N) returns holds the record
\* of an entry exactly when the record's date is at or after now minus N days, the
\* boundary instant included, and holds nothing else.
C23_WindowFilter ==
  fetched = "ok" =>
    /\ \A k \in 1..Len(feed) :
         LET r == ParseRssItem(feed[k], now)
         IN  r.ok => ((\E j \in 1..Len(all_decisions) : all_decisions[j] = r)
                        <=> r.date >= now - DaysBack * TicksPerDay)
    /\ \A j \in 1..Len(all_decisions) :
         /\ all_decisions[j].date >= now - DaysBack * TicksPerDay
         /\ \E k \in 1..Len(feed) : all_decisions[j] = ParseRssItem(feed[k], now)
\* a record issued at the boundary instant was returned
C23_Witness ==
  /\ fetched = "ok"
  /\ \E j \in 1..Len(all_decisions) :
       all_decisions[j].date = now - DaysBack * TicksPerDay

\* ------------------------------------------------ the claims about how a run ends
Terminal == {"done", "abort"}

StepsLeft ==
  IF pc = "fetch" THEN MaxItems + 3
  ELSE IF pc = "select" THEN MaxItems + 2
  ELSE IF pc = "enrich" THEN Len(today_decisions) - i + 2
  ELSE IF pc = "render" THEN 1
  ELSE 0

Count(d, ds) == Cardinality({k \in 1..Len(ds) : ds[k] = d})

\* C25 (classification partitions the records of the run): when the digest is
\* rendered, every record of today_decisions stands once in patent_decisions or in
\* non_patent_decisions (as often as it stands in today_decisions) and the two lists
\* hold nothing else, however summarizing and classifying went.
C25_ClassificationPartition ==
  pc = "render" =>
    LET out == patent_decisions \o non_patent_decisions
    IN  /\ Len(out) = Len(today_decisions)
        /\ \A k \in 1..Len(today_decisions) :
             Count(today_decisions[k], out) = Count(today_decisions[k], today_decisions)
        /\ \A k \in 1..Len(out) : Count(out[k], today_decisions) > 0
\* a digest about to be rendered with a record in each list
C25_Witness ==
  pc = "render" /\ patent_decisions # <<>> /\ non_patent_decisions # <<>>

\* C26 (same-day scope): the date of every record handed to delivery is the date of
\* the run in US Eastern time; a record of the window dated another day is not in
\* the digest of that run.
C26_SameDayScope ==
  /\ \A k \in 1..Len(handed) : DateOf(handed[k].date) = EasternToday
  /\ \A j \in 1..Len(all_decisions) :
       DateOf(all_decisions[j].date) # EasternToday => ~InList(all_decisions[j], handed)
\* a digest was handed over while the window held a record of another day
C26_Witness ==
  /\ handed # <<>> /\ sendResult # "none"
  /\ \E j \in 1..Len(all_decisions) : DateOf(all_decisions[j].date) # EasternToday

\* C27 (no delivery on an empty set): a run that selected no record makes no
\* enrichment call, renders no digest and does not call send_email; send_email is
\* called at most once in a run, and with a digest that is not empty.
C27_NoDeliveryOnEmptySet ==
  /\ calls.send <= 1
  /\ (calls.send = 1) = (sendResult # "none")
  /\ calls.send = 1 => handed # <<>>
  /\ pc \in {"enrich", "render"} => today_decisions # <<>>
  /\ today_decisions = <<>> => (calls = NoCalls /\ handed = <<>>)
\* a run ended with records in the window, none of today, and no call made
C27_Witness ==
  /\ pc = "done" /\ fetched = "ok"
  /\ all_decisions # <<>> /\ today_decisions = <<>>
  /\ calls = NoCalls

\* C28 (delivery errors are values): send_email never raises: a failure while
\* connecting, authenticating or sending makes it return False, it returns True
\* only after the message was handed to the SMTP server, and a run that called
\* send_email ends normally whatever the SMTP session did.
C28_DeliveryErrorsAreValues ==
  /\ smtp \in {"connect_failed", "login_failed", "send_failed"} => sendResult = "failed"
  /\ sendResult = "ok" => HandedToServer(smtp)
  /\ (smtp # "none") = (sendResult # "none")
  /\ smtp # "none" => (pc = "done" /\ calls.send = 1)
\* a run ended normally although the login of its SMTP session failed
C28_Witness ==
  pc = "done" /\ smtp = "login_failed" /\ sendResult = "failed" /\ handed # <<>>

\* C29 (validated delivery configuration): once the EmailSender constructor has
\* returned, the sender address and the password are not empty and the list of
\* recipients is not empty, whatever the value of EMAIL_RECIPIENTS.
C29_ValidatedConfiguration ==
  (runs > 0 /\ EmailConfigOk(env)) =>
     /\ env.EMAIL_FROM # "" /\ env.EMAIL_PASSWORD # ""
     /\ SplitRecipients(env.EMAIL_RECIPIENTS) # <<>>

\* C30 (degradation without a model client): when no API key is set, a run fetches
\* no document and calls no model, never enters the summarizing loop, hands every
\* selected record to delivery as a patent case with an empty summary, and its
\* non-patent list is empty.
C30_NoClientDegradation ==
  env.ANTHROPIC_API_KEY = "" =>
     /\ calls.pdf = 0 /\ calls.model = 0
     /\ pc # "enrich" /\ answer = "none"
     /\ non_patent_decisions = <<>>
     /\ \A k \in 1..Len(today_decisions) : today_decisions[k].summary = ""
     /\ pc = "render" => patent_decisions = today_decisions
     /\ sendResult # "none" =>
          (handed = today_decisions /\ handed = patent_decisions /\ handed # <<>>)
\* a digest of two records went out of a run without a client
C30_Witness ==
  /\ env.ANTHROPIC_API_KEY = "" /\ pc = "done" /\ sendResult = "ok"
  /\ Len(handed) = 2 /\ calls = [NoCalls EXCEPT !.send = 1]
====
